---------------------------- MODULE Spec2Model ----------------------------
(***************************************************************************)
(* Model of src/news_aggregator.py (NewsAggregator and main).              *)
(*                                                                         *)
(* Python str values are TLA+ strings; a character is a string of length   *)
(* one, read with SubSeq(s, i, i).  None is the model value NoneV.         *)
(* Documents parsed by feedparser and BeautifulSoup are represented by the *)
(* sequence of entries / elements the code iterates over, each a record of *)
(* the texts and attributes the code reads from it.                        *)
(***************************************************************************)
EXTENDS Integers, Sequences, FiniteSets, TLC

(***************************************************************************)
(* Python built-ins used by the program                                    *)
(***************************************************************************)
NoneV == "<None>"

Min(a, b) == IF a <= b THEN a ELSE b

Ch(s, i) == SubSeq(s, i, i)

\* s[:n]
Prefix(s, n) == SubSeq(s, 1, Min(n, Len(s)))

\* s[i:] for a 1-based position i
Suffix(s, i) == SubSeq(s, i, Len(s))

\* s.startswith(p)
StartsWith(s, p) == Len(p) <= Len(s) /\ SubSeq(s, 1, Len(p)) = p

\* sub in s
Contains(s, sub) ==
    \E i \in 1..(Len(s) - Len(sub) + 1) : SubSeq(s, i, i + Len(sub) - 1) = sub

\* s.find(sub) as a 1-based position, 0 when absent
Find(s, sub) ==
    LET hits == {i \in 1..(Len(s) - Len(sub) + 1) : SubSeq(s, i, i + Len(sub) - 1) = sub}
    IN  IF hits = {} THEN 0 ELSE CHOOSE i \in hits : \A j \in hits : i <= j

UpperToLower ==
    ("A" :> "a") @@ ("B" :> "b") @@ ("C" :> "c") @@ ("D" :> "d") @@ ("E" :> "e") @@
    ("F" :> "f") @@ ("G" :> "g") @@ ("H" :> "h") @@ ("I" :> "i") @@ ("J" :> "j") @@
    ("K" :> "k") @@ ("L" :> "l") @@ ("M" :> "m") @@ ("N" :> "n") @@ ("O" :> "o") @@
    ("P" :> "p") @@ ("Q" :> "q") @@ ("R" :> "r") @@ ("S" :> "s") @@ ("T" :> "t") @@
    ("U" :> "u") @@ ("V" :> "v") @@ ("W" :> "w") @@ ("X" :> "x") @@ ("Y" :> "y") @@
    ("Z" :> "z")

LowerChar(c) == IF c \in DOMAIN UpperToLower THEN UpperToLower[c] ELSE c

\* a stretch without capitals is its own lower case
RECURSIVE LowerRange(_, _, _)
LowerRange(s, lo, hi) ==
    IF lo > hi THEN ""
    ELSE IF \A i \in lo..hi : Ch(s, i) \notin DOMAIN UpperToLower THEN SubSeq(s, lo, hi)
    ELSE IF lo = hi THEN LowerChar(Ch(s, lo))
    ELSE LET mid == (lo + hi) \div 2
         IN  LowerRange(s, lo, mid) \o LowerRange(s, mid + 1, hi)

\* s.lower()
Lower(s) == LowerRange(s, 1, Len(s))

Whitespace == {" ", "\t", "\n", "\r"}

IsSpace(c) == c \in Whitespace

Digits == {"0", "1", "2", "3", "4", "5", "6", "7", "8", "9"}

IsDigit(c) == c \in Digits

DigitStr == <<"0", "1", "2", "3", "4", "5", "6", "7", "8", "9">>

DigitVal(c) == CHOOSE d \in 0..9 : DigitStr[d + 1] = c

RECURSIVE ToInt(_)
ToInt(s) == IF s = "" THEN 0
            ELSE 10 * ToInt(SubSeq(s, 1, Len(s) - 1)) + DigitVal(Ch(s, Len(s)))

AllDigits(s) == \A i \in 1..Len(s) : IsDigit(Ch(s, i))

\* '%02d' / '%04d' formatting of a non-negative number
RECURSIVE ZeroPad(_, _)
ZeroPad(n, width) ==
    IF width = 0 THEN ""
    ELSE ZeroPad(n \div 10, width - 1) \o DigitStr[(n % 10) + 1]

(***************************************************************************)
(* _clean_text: ' '.join(text.split()).strip()                             *)
(* A whitespace character survives, as one space, exactly when it opens a  *)
(* whitespace run that has a word on both sides.                           *)
(***************************************************************************)
\* position of the last character at or before i that is no whitespace, 0 when none
RECURSIVE LastWordEnd(_, _)
LastWordEnd(s, i) ==
    IF i = 0 THEN 0
    ELSE IF ~IsSpace(Ch(s, i)) THEN i
    ELSE LastWordEnd(s, i - 1)

\* position of the first character at or after i that is no whitespace, Len(s) + 1 when none
RECURSIVE FirstWordStart(_, _)
FirstWordStart(s, i) ==
    IF i > Len(s) THEN i
    ELSE IF ~IsSpace(Ch(s, i)) THEN i
    ELSE FirstWordStart(s, i + 1)

RECURSIVE JoinSplit(_, _, _, _)
JoinSplit(s, lo, hi, last) ==
    IF lo > hi THEN ""
    ELSE IF lo = hi THEN
        IF ~IsSpace(Ch(s, lo)) THEN Ch(s, lo)
        ELSE IF lo > 1 /\ lo < last /\ ~IsSpace(Ch(s, lo - 1)) THEN " "
        ELSE ""
    ELSE LET mid == (lo + hi) \div 2
         IN  JoinSplit(s, lo, mid, last) \o JoinSplit(s, mid + 1, hi, last)

_clean_text(text) ==
    IF text = NoneV \/ text = "" THEN ""
    ELSE JoinSplit(text, 1, Len(text), LastWordEnd(text, Len(text)))

(***************************************************************************)
(* _clean_html: BeautifulSoup(html).get_text() drops the markup, then      *)
(* _clean_text.  Markup is every "<...>" span.                             *)
(***************************************************************************)
RECURSIVE StripTags(_)
StripTags(s) ==
    LET open == Find(s, "<")
    IN  IF open = 0 THEN s
        ELSE LET rest  == Suffix(s, open)
                 close == Find(rest, ">")
             IN  IF close = 0 THEN s
                 ELSE SubSeq(s, 1, open - 1) \o StripTags(Suffix(rest, close + 1))

_clean_html(html) ==
    IF html = NoneV \/ html = "" THEN ""
    ELSE _clean_text(StripTags(html))

(***************************************************************************)
(* URL screening and resolution                                            *)
(***************************************************************************)
\* _validate_url (source_name is accepted and not used)
_validate_url(url, source_name) ==
    IF url = "" \/ ~StartsWith(url, "http")
       \/ (\E skip \in {"mailto:", "tel:", "javascript:"} : Contains(Lower(url), skip))
    THEN ""
    ELSE url

SchemeChars ==
    {"a", "b", "c", "d", "e", "f", "g", "h", "i", "j", "k", "l", "m", "n", "o", "p",
     "q", "r", "s", "t", "u", "v", "w", "x", "y", "z", "+", "-", "."} \cup Digits

\* the scheme urllib.parse.urlsplit finds: text before the first ':' when it
\* starts with a letter and holds only scheme characters; "" when none
UrlScheme(url) ==
    LET colon == Find(url, ":")
    IN  IF colon <= 1 THEN ""
        ELSE LET head == Lower(SubSeq(url, 1, colon - 1))
             IN  IF /\ ~IsDigit(Ch(head, 1)) /\ Ch(head, 1) \notin {"+", "-", "."}
                    /\ \A i \in 1..Len(head) : Ch(head, i) \in SchemeChars
                 THEN head ELSE ""

\* scheme://netloc of an absolute URL
UrlOrigin(url) ==
    LET sep   == Find(url, "://")
        after == Suffix(url, sep + 3)
        slash == Find(after, "/")
    IN  IF slash = 0 THEN url ELSE SubSeq(url, 1, sep + 2 + slash - 1)

\* the base URL up to and including the last '/' of its path
UrlDir(url) ==
    LET sep     == Find(url, "://")
        slashes == {i \in (sep + 3)..Len(url) : Ch(url, i) = "/"}
    IN  IF slashes = {} THEN url \o "/"
        ELSE SubSeq(url, 1, CHOOSE i \in slashes : \A j \in slashes : j <= i)

\* urllib.parse.urljoin for references without dot segments, query-only or
\* fragment-only forms
urljoin(base_url, url) ==
    IF url = "" THEN base_url
    ELSE IF base_url = "" THEN url
    ELSE IF UrlScheme(url) # "" THEN url
    ELSE IF StartsWith(url, "//") THEN UrlScheme(base_url) \o ":" \o url
    ELSE IF StartsWith(url, "/") THEN UrlOrigin(base_url) \o url
    ELSE UrlDir(base_url) \o url

_fix_relative_url(url, base_url) ==
    IF url = "" THEN ""
    ELSE IF \E skip \in {"mailto:", "tel:", "javascript:"} : Contains(Lower(url), skip) THEN ""
    ELSE IF StartsWith(url, "http") THEN url
    ELSE urljoin(base_url, url)

(***************************************************************************)
(* datetime values are <<year, month, day, hour, minute, second>>          *)
(***************************************************************************)
IsLeap(y) == (y % 4 = 0) /\ ((y % 100 # 0) \/ (y % 400 = 0))

DaysInMonth(y, m) ==
    IF m = 2 THEN (IF IsLeap(y) THEN 29 ELSE 28)
    ELSE IF m \in {4, 6, 9, 11} THEN 30 ELSE 31

\* datetime(y, m, d, hh, mm, ss) raises ValueError unless this holds
ValidDatetime(ts) ==
    /\ ts[1] \in 1..9999
    /\ ts[2] \in 1..12
    /\ ts[3] \in 1..DaysInMonth(ts[1], ts[2])
    /\ ts[4] \in 0..23
    /\ ts[5] \in 0..59
    /\ ts[6] \in 0..59

\* a < b on datetime values
DtLess(a, b) ==
    \E k \in 1..6 : a[k] < b[k] /\ \A j \in 1..(k - 1) : a[j] = b[j]

PrevDay(dt) ==
    IF dt[3] > 1 THEN [dt EXCEPT ![3] = dt[3] - 1]
    ELSE IF dt[2] > 1 THEN [dt EXCEPT ![2] = dt[2] - 1, ![3] = DaysInMonth(dt[1], dt[2] - 1)]
    ELSE [dt EXCEPT ![1] = dt[1] - 1, ![2] = 12, ![3] = 31]

\* dt - timedelta(days=n)
RECURSIVE MinusDays(_, _)
MinusDays(dt, n) == IF n = 0 THEN dt ELSE MinusDays(PrevDay(dt), n - 1)

\* '%d' formatting of a positive number
RECURSIVE Decimal(_)
Decimal(n) == IF n < 10 THEN DigitStr[n + 1] ELSE Decimal(n \div 10) \o DigitStr[(n % 10) + 1]

\* dt.strftime("%Y-%m-%d"); the C library's %Y does not pad a year below 1000
strftime(dt) == Decimal(dt[1]) \o "-" \o ZeroPad(dt[2], 2) \o "-" \o ZeroPad(dt[3], 2)

\* None where a datetime or a time tuple is expected
NoDatetime == <<>>

ValueError == <<"ValueError">>

\* _parse_date: the first of published_parsed, updated_parsed that is set,
\* converted with datetime(*ts[:6]); ValueError when that constructor raises
_parse_date(entry) ==
    LET ts == IF entry.published_parsed # NoDatetime THEN entry.published_parsed
              ELSE entry.updated_parsed
    IN  IF ts = NoDatetime THEN NoDatetime
        ELSE IF ValidDatetime(ts) THEN ts
        ELSE ValueError

(***************************************************************************)
(* _extract_date_from_text                                                 *)
(***************************************************************************)
At(s, i) == IF 1 <= i /\ i <= Len(s) THEN SubSeq(s, i, i) ELSE ""

\* \s of the re module (ASCII)
IsReSpace(c) == c \in {" ", "\t", "\n", "\r"}

\* \d{4}-\d{2}-\d{2} matches at position i
IsoAt(s, i) ==
    /\ i + 9 <= Len(s)
    /\ \A k \in {0, 1, 2, 3, 5, 6, 8, 9} : IsDigit(Ch(s, i + k))
    /\ Ch(s, i + 4) = "-"
    /\ Ch(s, i + 7) = "-"

MonthNames ==
    <<"January", "February", "March", "April", "May", "June", "July",
      "August", "September", "October", "November", "December">>

MonthInitials == {"J", "F", "M", "A", "S", "O", "N", "D"}

\* first position at or after i that holds no whitespace
RECURSIVE SkipSpace(_, _)
SkipSpace(s, i) == IF IsReSpace(At(s, i)) THEN SkipSpace(s, i + 1) ELSE i

\* \s+\d{4} from position q1, the whitespace ending before r: the position
\* of the year, 0 when there is no match
YearAt(s, q1, r) ==
    IF r > q1 /\ \A k \in 0..3 : IsDigit(At(s, r + k)) THEN r ELSE 0

\* ,?\s+\d{4} matches at position q: the position of the year, 0 when not
YearAfter(s, q) ==
    IF At(s, q) = "," THEN YearAt(s, q + 1, SkipSpace(s, q + 1))
    ELSE YearAt(s, q, SkipSpace(s, q))

\* the groups of a match: <<month, day text, year text>>; <<>> without a year
MonthMatch(s, m, day_from, day_to, year) ==
    IF year = 0 THEN <<>>
    ELSE <<m, SubSeq(s, day_from, day_to), SubSeq(s, year, year + 3)>>

\* \d{1,2},?\s+\d{4} from position p: two digits when they lead to a match,
\* else one
DayYear(s, m, p) ==
    IF ~IsDigit(At(s, p)) THEN <<>>
    ELSE IF IsDigit(At(s, p + 1)) /\ YearAfter(s, p + 2) # 0
         THEN MonthMatch(s, m, p, p + 1, YearAfter(s, p + 2))
    ELSE MonthMatch(s, m, p, p, YearAfter(s, p + 1))

\* \s+ from the position j that follows the month name, the day at p
AfterMonth(s, m, j, p) == IF p = j THEN <<>> ELSE DayYear(s, m, p)

\* the month names that stand at position i (the pattern is case sensitive)
MonthsAt(s, i) ==
    IF Ch(s, i) \notin MonthInitials THEN {}
    ELSE {m \in 1..12 : /\ i + Len(MonthNames[m]) - 1 <= Len(s)
                        /\ SubSeq(s, i, i + Len(MonthNames[m]) - 1) = MonthNames[m]}

NamedMonth(s, i, m) ==
    AfterMonth(s, m, i + Len(MonthNames[m]), SkipSpace(s, i + Len(MonthNames[m])))

WithMonths(s, i, ms) ==
    IF ms = {} THEN <<>> ELSE NamedMonth(s, i, CHOOSE x \in ms : TRUE)

\* (Month)\s+\d{1,2},?\s+\d{4} at position i of s:
\* <<month, day text, year text>>, or <<>> when there is no match
MonthAt(s, i) == WithMonths(s, i, MonthsAt(s, i))

\* datetime.strptime(..., '%B %d %Y') then strftime('%Y-%m-%d'); NoneV when
\* strptime raises (the bare except swallows it)
MonthMatchToDate(mt) ==
    IF /\ ToInt(mt[2]) >= 1
       /\ ToInt(mt[3]) >= 1
       /\ ToInt(mt[2]) <= DaysInMonth(ToInt(mt[3]), mt[1])
    THEN strftime(<<ToInt(mt[3]), mt[1], ToInt(mt[2]), 0, 0, 0>>)
    ELSE NoneV

\* where re.search matches: the least of the positions S at which the
\* pattern matches
FirstMatch(S) == CHOOSE x \in S : \A y \in S : x <= y

IsoMatches(text) == {i \in 1..Len(text) : IsoAt(text, i)}

MonthMatches(text) == {i \in 1..Len(text) : MonthAt(text, i) # <<>>}

\* the second pattern, mon the positions at which it matches
MonthDate(text, mon) ==
    IF mon = {} THEN NoneV ELSE MonthMatchToDate(MonthAt(text, FirstMatch(mon)))

\* the first pattern, iso the positions at which it matches, else the second
DateIn(text, iso) ==
    IF iso # {} THEN SubSeq(text, FirstMatch(iso), FirstMatch(iso) + 9)
    ELSE MonthDate(text, MonthMatches(text))

_extract_date_from_text(text) ==
    IF text = NoneV \/ text = "" THEN NoneV ELSE DateIn(text, IsoMatches(text))

(***************************************************************************)
(* Configuration (module level)                                            *)
(***************************************************************************)
MAX_ARTICLES_PER_SOURCE == 10

DAYS_LOOKBACK == 45

FETCH_FULL_CONTENT == TRUE

MAX_CONTENT_LENGTH == 5000

MAX_SNIPPET_LENGTH == 500

MIN_TITLE_LENGTH == 10

(***************************************************************************)
(* _fetch_full_article_content                                             *)
(* A response of session.get is TransportError (the request or             *)
(* raise_for_status raised) or a page: the text of each region the code    *)
(* looks for, NoneV where the page has no such element.  NoResponse stands *)
(* for the response of a request that is not made.                         *)
(***************************************************************************)
TransportError == [ok |-> FALSE]

NoRequest == "<NoRequest>"

NoResponse == [ok |-> FALSE, sent |-> FALSE]

\* url.split('?')[0]
BeforeQuery(url) ==
    LET q == Find(url, "?") IN IF q = 0 THEN url ELSE SubSeq(url, 1, q - 1)

\* the URL the fetcher requests, NoRequest when it returns before session.get
ContentRequest(url) ==
    IF ~FETCH_FULL_CONTENT \/ ~StartsWith(url, "http") THEN NoRequest
    ELSE BeforeQuery(url)

\* article or main or div#content, else div.content or body
ContentRegion(page) ==
    LET first  == IF page.article # NoneV THEN page.article
                  ELSE IF page.main # NoneV THEN page.main
                  ELSE page.div_id
        second == IF page.div_class # NoneV THEN page.div_class ELSE page.body
    IN  IF first # NoneV THEN first ELSE second

\* re.sub(r'Page details\s+\d{4}-\d{2}-\d{2}.*', '', text) on one-line text
StripPageDetails(text) ==
    LET label == "Page details"
        hits  == {i \in 1..(Len(text) - Len(label) + 1) :
                    /\ SubSeq(text, i, i + Len(label) - 1) = label
                    /\ SkipSpace(text, i + Len(label)) > i + Len(label)
                    /\ IsoAt(text, SkipSpace(text, i + Len(label)))}
    IN  IF hits = {} THEN text
        ELSE SubSeq(text, 1, (CHOOSE i \in hits : \A j \in hits : i <= j) - 1)

\* the value returned for a URL given the response to the request it makes
_fetch_full_article_content(url, response) ==
    IF ContentRequest(url) = NoRequest THEN ""
    ELSE IF ~response.ok THEN ""
    ELSE LET content == ContentRegion(response)
         IN  IF content = NoneV \/ content = "" THEN ""
             ELSE Prefix(StripPageDetails(_clean_text(content)), MAX_CONTENT_LENGTH)

(***************************************************************************)
(* _create_article                                                         *)
(***************************************************************************)
\* the empty dict
NoArticle == <<>>

ExcludedSchemes == {"mailto:", "tel:", "javascript:", "whatsapp:"}

Falsy(v) == v = NoneV \/ v = ""

\* TRUE when _create_article returns before the content fetch
RejectedUrl(url) ==
    Falsy(url) \/ \E skip \in ExcludedSchemes : Contains(Lower(url), skip)

\* python's "a or b" for strings and None
Or(a, b) == IF Falsy(a) THEN b ELSE a

\* the date resolution with the snippet consulted before the full content
ArticleDate_snippet_first(date_str, full_content, snippet, today) ==
    Or(Or(date_str, Or(_extract_date_from_text(snippet),
                       _extract_date_from_text(full_content))),
       today)

\* the hint when there is one, else a date found in the full content, else
\* one found in the snippet, else today
ArticleDate(date_str, full_content, snippet, today) ==
    Or(Or(date_str, Or(_extract_date_from_text(full_content),
                       _extract_date_from_text(snippet))),
       today)

\* the title test and the dict, full_content being what the content fetch
\* returned
ArticleRecord(title, url, source_name, category, snippet, date_str, full_content, today) ==
    IF Falsy(title) \/ Len(title) < MIN_TITLE_LENGTH THEN NoArticle
    ELSE [title             |-> title,
          url               |-> url,
          date              |-> ArticleDate(date_str, full_content, snippet, today),
          content           |-> Or(full_content, snippet),
          source            |-> source_name,
          category          |-> category,
          extraction_method |-> "scrape"]

\* today is datetime.now().strftime("%Y-%m-%d"); response answers the request
\* of the content fetch
_create_article(title, url, source_name, category, snippet, date_str, response, today) ==
    IF RejectedUrl(url) THEN NoArticle
    ELSE ArticleRecord(title, url, source_name, category, snippet, date_str,
                       _fetch_full_article_content(url, response), today)

\* _matches_keywords with the test for an absent list inverted
_matches_keywords_inverted(article, keywords) ==
    IF keywords # <<>> THEN TRUE
    ELSE LET text == Lower(article.title \o " " \o article.content)
         IN  \E i \in 1..Len(keywords) : Contains(text, Lower(keywords[i]))

\* _matches_keywords; keywords is the source's list, <<>> when the key is absent
_matches_keywords(article, keywords) ==
    IF keywords = <<>> THEN TRUE
    ELSE LET text == Lower(article.title \o " " \o article.content)
         IN  \E i \in 1..Len(keywords) : Contains(text, Lower(keywords[i]))

(***************************************************************************)
(* The environment of a run: the clock, the feeds, the listing pages and   *)
(* the article pages.                                                      *)
(***************************************************************************)
\* datetime.now()
now == <<2026, 1, 20, 9, 30, 0>>

today == strftime(now)

RECURSIVE Rep(_, _)
Rep(s, n) ==
    IF n = 0 THEN ""
    ELSE IF n % 2 = 0 THEN LET half == Rep(s, n \div 2) IN half \o half
    ELSE s \o Rep(s, n - 1)

\* a text longer than MAX_CONTENT_LENGTH
LongText == Rep("equity ", 715)

Entry(title, link, published, updated, summary) ==
    [title |-> title, link |-> link, published_parsed |-> published,
     updated_parsed |-> updated, summary |-> summary, description |-> NoneV]

e_fresh == Entry("Pension reform  update announced",
                 "https://news.example.org/pension-reform?src=rss",
                 <<2026, 1, 10, 8, 0, 0>>, NoDatetime,
                 "<p>The government  announced a <b>pension</b> reform.</p>")

e_old == Entry("Old actuarial guidance note", "https://news.example.org/old-guidance",
               <<2025, 10, 22, 8, 0, 0>>, <<2026, 1, 19, 8, 0, 0>>, "Guidance note")

\* dated one second before now - DAYS_LOOKBACK, through the updated field
e_stale == Entry("Stale consultation paper closes", "https://news.example.org/stale-paper",
                 NoDatetime, <<2025, 12, 6, 9, 29, 59>>, "Consultation")

\* dated exactly now - DAYS_LOOKBACK
e_edge == Entry("Consultation on plan funding opens", "https://news.example.org/undated",
                <<2025, 12, 6, 9, 30, 0>>, NoDatetime, "Consultation opens")

e_notitle == Entry(NoneV, "https://news.example.org/pension-reform",
                   <<2026, 1, 12, 8, 0, 0>>, NoDatetime, "Untitled item")

\* a leap second: time.struct_time holds it, datetime() does not
e_leap == Entry("Leap second bulletin issued", "https://news.example.org/pension-reform",
                <<2025, 12, 31, 23, 59, 60>>, NoDatetime, "Bulletin")

e_nodate == Entry("Undated regulatory reminder", "https://news.example.org/undated",
                  NoDatetime, NoDatetime, NoneV)

e_mailto == Entry("Write to the editor today", "https://news.example.org/share?to=mailto:ed@example.org",
                  <<2026, 1, 11, 8, 0, 0>>, NoDatetime, "Letters")

e_long == Entry("Solvency funding review released", "https://down.example.org/long-story",
                <<2026, 1, 13, 8, 0, 0>>, NoDatetime, LongText)

\* the k-th entry of a feed that holds more than MAX_ARTICLES_PER_SOURCE entries
e_briefing(k) ==
    Entry("Weekly pension briefing number " \o Decimal(k),
          "https://news.example.org/briefing-" \o Decimal(k),
          <<2026, 1, 15, 8, 0, 0>>, NoDatetime, "Briefing")

\* what feedparser.parse can return as feed.entries
Feeds ==
    { <<>>,
      <<e_fresh, e_old, e_nodate>>,
      <<e_notitle, e_leap, e_fresh>>,
      <<e_mailto, e_long, e_stale, e_edge>>,
      [k \in 1..(MAX_ARTICLES_PER_SOURCE + 2) |-> e_briefing(k)] }

Page(article, main, div_id, div_class, body) ==
    [ok |-> TRUE, article |-> article, main |-> main, div_id |-> div_id,
     div_class |-> div_class, body |-> body]

\* the responses session.get can give for an article URL
HttpGet(url) ==
    CASE url = "https://news.example.org/pension-reform" ->
            { TransportError,
              Page("The government announced  a pension reform on January 9, 2026.",
                   "Site header The government announced", NoneV, NoneV, "Everything") }
      [] url = "https://news.example.org/undated" ->
            { Page(NoneV, NoneV, NoneV, NoneV, LongText) }
      [] url = "https://regulator.example.org/news/funding-rules" ->
            { Page(NoneV, "New solvency rules apply. Page details 2025-03-20 Feedback",
                   NoneV, "Sidebar", "Everything") }
      [] url = "https://news.google.com/articles/abc123" ->
            { Page(NoneV, NoneV, NoneV, "Markets moved. Updated 2026-01-18 at noon", "Everything") }
      [] url = "https://regulator.example.org/news/annual-report" ->
            { TransportError,
              Page("The annual report was released on 2025-12-30 by the board.",
                   NoneV, NoneV, NoneV, "Everything") }
      [] url = "https://regulator.example.org/news/notices" ->
            { Page(NoneV, NoneV, NoneV, NoneV, NoneV) }
      [] OTHER -> { TransportError }

Item(text, link_text, href, time_text, time_attr, date_text, item_text) ==
    [text |-> text, link_text |-> link_text, href |-> href, time_text |-> time_text,
     time_attr |-> time_attr, date_text |-> date_text, item_text |-> item_text]

it_ok == Item("Pension  funding rules\n updated for 2026",
              "  Pension funding rules updated for 2026 ",
              "/news/funding-rules?utm=home", " March 14, 2025 ", NoneV,
              "Posted: 2025-03-14",
              "Pension funding rules updated for 2026 March 14, 2025 New solvency requirements")

it_ftp == Item("Annual solvency report published", "Annual solvency report published",
               "ftp://files.example.org/news/report.pdf", NoneV, NoneV, NoneV,
               "Annual solvency report published Download")

it_short == Item("News", "News", "/news/notices", "  ", NoneV, NoneV, "News")

it_mail == Item("Contact the media relations team", "Contact the media relations team",
                "MAILTO:media@example.org", NoneV, NoneV, NoneV,
                "Contact the media relations team")

it_wa == Item("Share this pension bulletin now", "Share this pension bulletin now",
              "whatsapp://send?text=/news/bulletin", NoneV, NoneV, NoneV,
              "Share this pension bulletin now")

it_nolink == Item("Section heading without any link", NoneV, NoneV, NoneV, NoneV, NoneV,
                  "Section heading without any link")

it_attr == Item("Markets react to new pension legislation",
                "Markets react to new pension legislation",
                "articles/abc123", "2 days ago", "2026-01-18T07:45:00Z", NoneV,
                "Markets react to new pension legislation 2 days ago")

\* no time or date element; the text of the element holds a date
it_dated == Item("Annual report of the pension regulator",
                 "Annual report of the pension regulator",
                 "/news/annual-report", NoneV, NoneV, NoneV,
                 "Annual report of the pension regulator Published January 5, 2026")

\* the k-th item of a listing that holds more than MAX_ARTICLES_PER_SOURCE items
it_notice(k) ==
    Item("Pension funding notice number " \o Decimal(k),
         "Pension funding notice number " \o Decimal(k),
         "/news/notice-" \o Decimal(k), NoneV, NoneV, "Posted: 2025-03-14",
         "Pension funding notice number " \o Decimal(k) \o " 2025-03-14")

Listing(primary, fallback) == [ok |-> TRUE, primary |-> primary, fallback |-> fallback]

\* the listing documents a source page can hold: primary is what the
\* strategy's first find_all returns, fallback what its second one returns
Listings ==
    { Listing(<<it_ok, it_ftp>>, <<>>),
      Listing(<<it_short, it_mail, it_ok>>, <<>>),
      Listing(<<it_nolink, it_wa, it_attr>>, <<>>),
      Listing(<<>>, <<it_ok, it_ok, it_ftp>>),
      Listing(<<it_dated>>, <<it_dated>>),
      Listing([k \in 1..(MAX_ARTICLES_PER_SOURCE + 2) |-> it_notice(k)], <<>>),
      Listing(<<>>, [k \in 1..(MAX_ARTICLES_PER_SOURCE + 2) |-> it_notice(k)]) }

Source(name, category, type, url, source_page, keywords) ==
    [name |-> name, category |-> category, type |-> type, url |-> url,
     rss_url |-> NoneV, source_page |-> source_page, keywords |-> keywords]

RegulatorPage == "https://regulator.example.org/en/newsroom"

SourcePool ==
    { Source("Benefits Canada", "Industry", "rss", "https://feeds.example.org/benefits", NoneV, <<>>),
      Source("Pension Pulse", "Industry", "rss", "https://feeds.example.org/pulse", NoneV,
             <<"SOLVENCY", "announced the">>),
      Source("FCAA", "Provincial", "scrape", NoneV, RegulatorPage, <<>>),
      Source("CRA", "Federal", "scrape", NoneV, RegulatorPage, <<>>),
      Source("Retraite Quebec", "Provincial", "scrape", NoneV, RegulatorPage, <<>>),
      Source("OSFI", "Federal", "scrape", NoneV, RegulatorPage, <<>>),
      Source("FSRAO", "Provincial", "scrape", NoneV, RegulatorPage, <<"solvency">>),
      Source("BCFSA", "Provincial", "scrape", NoneV, RegulatorPage, <<>>),
      Source("CAPSA", "Industry", "scrape", NoneV, RegulatorPage, <<>>),
      Source("Canadian Institute of Actuaries", "Industry", "scrape", NoneV, RegulatorPage, <<>>),
      Source("ACPM", "Industry", "scrape", NoneV, RegulatorPage, <<>>),
      Source("Alberta Treasury Board", "Provincial", "scrape", NoneV, RegulatorPage, <<>>),
      Source("Barbados FSC", "Caribbean", "scrape", NoneV, RegulatorPage, <<"Pension">>),
      Source("Other News Sources", "Industry", "scrape", NoneV,
             "https://news.google.com/search?q=pension", <<"legislation">>),
      Source("Cayman CIMA", "Caribbean", "scrape", "https://cima.example.org/news", NoneV, <<>>) }

\* the longest configuration explored
MaxSources == 2

Configs == UNION { [1..n -> SourcePool] : n \in 0..MaxSources }

(***************************************************************************)
(* State of a run of main()                                                *)
(***************************************************************************)
VARIABLES
    pc,            \* the function the run is in
    config,        \* config['sources'] once loaded
    src,           \* position of the for loop over config['sources']
    items,         \* the sequence the running feed or strategy loop iterates
    ii,            \* position of that loop
    articles,      \* the list the running fetch_rss_feed / scrape_website builds
    seen,          \* the set seen of _scrape_bcfsa
    fetched,       \* per source reached so far, how its feed / listing fetch went
    all_articles,  \* all_articles of aggregate_all_sources
    driver,        \* self.driver
    launched,      \* browsers started by webdriver.Chrome so far
    browsers,      \* browsers started and not quit
    renders,       \* calls of _fetch_with_selenium so far
    gets,          \* calls of session.get so far
    outfile,       \* OUTPUT_FILE on disk: "absent", "partial" or "complete"
    stdout,        \* what main has printed
    raised,        \* an exception is propagating out of main
    probe          \* the last call of a normalizer made on its own

vars == <<pc, config, src, items, ii, articles, seen, fetched, all_articles, driver,
          launched, browsers, renders, gets, outfile, stdout, raised, probe>>

loopVars == <<items, ii, articles, seen>>

webVars == <<driver, launched, browsers, renders, gets>>

mainVars == <<outfile, stdout, raised>>

NoProbe == [fn |-> "none"]

\* NewsAggregator.__init__ and the start of main
Init ==
    /\ pc = "main"
    /\ config = <<>>
    /\ src = 0
    /\ items = <<>>
    /\ ii = 0
    /\ articles = <<>>
    /\ seen = {}
    /\ fetched = <<>>
    /\ all_articles = <<>>
    /\ driver = NoneV
    /\ launched = 0
    /\ browsers = 0
    /\ renders = 0
    /\ gets = 0
    /\ outfile = "absent"
    /\ stdout = ""
    /\ raised = FALSE
    /\ probe = NoProbe

source == config[src]

(***************************************************************************)
(* aggregate_all_sources                                                   *)
(***************************************************************************)
\* open / json.load / config['sources']: the list, or an exception that the
\* outer handler logs before returning the empty all_articles
LoadConfig ==
    /\ pc = "main"
    /\ \/ \E cfg \in Configs :
            /\ config' = cfg
            /\ src' = 1
            /\ pc' = "aggregate_all_sources"
       \/ /\ pc' = "aggregated"
          /\ UNCHANGED <<config, src>>
    /\ UNCHANGED <<loopVars, fetched, all_articles, webVars, mainVars, probe>>

\* the for loop is exhausted: return all_articles
AggregateReturn ==
    /\ pc = "aggregate_all_sources"
    /\ src > Len(config)
    /\ pc' = "aggregated"
    /\ UNCHANGED <<config, src, loopVars, fetched, all_articles, webVars, mainVars, probe>>

\* source['url'] / source['source_page'] raises KeyError: the per-source
\* handler logs it and the loop goes on
SourceKeyError ==
    /\ pc = "aggregate_all_sources"
    /\ src <= Len(config)
    /\ IF source.type = "rss" THEN source.url = NoneV ELSE source.source_page = NoneV
    /\ src' = src + 1
    /\ fetched' = Append(fetched, "KeyError")
    /\ UNCHANGED <<pc, config, loopVars, all_articles, webVars, mainVars, probe>>

\* filtered = [a for a in articles if a and self._matches_keywords(a, source)]
Filtered(arts, keywords) ==
    SelectSeq(arts, LAMBDA a : a # NoArticle /\ _matches_keywords(a, keywords))

\* the call returned: filter, extend, next source.  articles stays bound to
\* the returned list; the locals of the callee are gone
FilterSource ==
    /\ pc = "filter"
    /\ all_articles' = all_articles \o Filtered(articles, source.keywords)
    /\ src' = src + 1
    /\ pc' = "aggregate_all_sources"
    /\ items' = <<>>
    /\ ii' = 0
    /\ seen' = {}
    /\ UNCHANGED <<config, articles, fetched, webVars, mainVars, probe>>


(***************************************************************************)
(* fetch_rss_feed                                                          *)
(***************************************************************************)
\* a window of one week in place of DAYS_LOOKBACK days
cutoff_date_week == MinusDays(now, 7)

cutoff_date == MinusDays(now, DAYS_LOOKBACK)

\* entry.get(key, default)
Get(value, default) == IF value = NoneV THEN default ELSE value

\* feedparser.parse(url): feed.entries, or an exception, which the handler
\* of fetch_rss_feed turns into the empty list
fetch_rss_feed ==
    /\ pc = "aggregate_all_sources"
    /\ src <= Len(config)
    /\ source.type = "rss"
    /\ source.url # NoneV
    /\ \/ \E feed \in Feeds :
            /\ items' = Prefix(feed, MAX_ARTICLES_PER_SOURCE)
            /\ ii' = IF feed = <<>> THEN 0 ELSE 1
            /\ pc' = IF feed = <<>> THEN "filter" ELSE "fetch_rss_feed"
            /\ fetched' = Append(fetched, "ok")
       \/ /\ items' = <<>>
          /\ ii' = 0
          /\ pc' = "filter"
          /\ fetched' = Append(fetched, "error")
    /\ articles' = <<>>
    /\ UNCHANGED <<config, src, seen, all_articles, webVars, mainVars, probe>>

\* the article built from an entry that passed the recency and link checks
RssArticle(entry, pub_date, url, response) ==
    LET body         == _fetch_full_article_content(url, response)
        full_content == IF body # "" THEN body
                        ELSE _clean_html(Get(entry.summary, Get(entry.description, "")))
    IN  [title             |-> _clean_text(Get(entry.title, "No title")),
         url               |-> url,
         date              |-> IF pub_date # NoDatetime THEN strftime(pub_date) ELSE today,
         content           |-> full_content,
         source            |-> source.name,
         category          |-> source.category,
         extraction_method |-> "rss"]

\* where the loop goes after the entry at ii
RssAdvance ==
    IF ii = Len(items)
    THEN pc' = "filter" /\ ii' = ii
    ELSE pc' = pc /\ ii' = ii + 1

\* one iteration of the loop over feed.entries[:MAX_ARTICLES_PER_SOURCE]
RssEntry ==
    /\ pc = "fetch_rss_feed"
    /\ LET entry    == items[ii]
           pub_date == _parse_date(entry)
           url      == _validate_url(Get(entry.link, ""), source.name)
       IN  IF pub_date = ValueError THEN
               \* the exception leaves the loop: except, return articles
               /\ pc' = "filter"
               /\ UNCHANGED <<ii, articles, gets>>
           ELSE IF pub_date # NoDatetime /\ DtLess(pub_date, cutoff_date) THEN
               /\ RssAdvance
               /\ UNCHANGED <<articles, gets>>
           ELSE IF url = "" THEN
               /\ RssAdvance
               /\ UNCHANGED <<articles, gets>>
           ELSE
               /\ RssAdvance
               /\ gets' = gets + 1
               /\ \E response \in HttpGet(ContentRequest(url)) :
                    articles' = Append(articles, RssArticle(entry, pub_date, url, response))
    /\ UNCHANGED <<config, src, items, seen, fetched, all_articles, driver, launched,
                   browsers, renders, mainVars, probe>>

(***************************************************************************)
(* The headless browser                                                    *)
(***************************************************************************)
RenderFailed == [ok |-> FALSE]

\* _get_selenium_driver without the test "if self.driver is None"
_get_selenium_driver_unshared(started) ==
    IF started
    THEN driver' = "webdriver" /\ launched' = launched + 1 /\ browsers' = browsers + 1
    ELSE UNCHANGED <<driver, launched, browsers>>

\* started: webdriver.Chrome(...) returned a browser rather than raising
_get_selenium_driver(started) ==
    IF driver = NoneV /\ started
    THEN driver' = "webdriver" /\ launched' = launched + 1 /\ browsers' = browsers + 1
    ELSE UNCHANGED <<driver, launched, browsers>>

\* html is what the call returns: RenderFailed for "" (no driver, or
\* driver.get raised), else the rendered document
_fetch_with_selenium(html) ==
    /\ renders' = renders + 1
    /\ \E started \in BOOLEAN : _get_selenium_driver(started)
    /\ html \in (IF driver' = NoneV THEN {RenderFailed} ELSE {RenderFailed} \cup Listings)

NoRender == UNCHANGED <<driver, launched, browsers, renders>>

(***************************************************************************)
(* Listing strategies.  Each maps the element at the loop position to the  *)
(* arguments of its _create_article call, or to NoCandidate when the       *)
(* iteration ends before that call.                                        *)
(***************************************************************************)
NoCandidate == <<>>

Candidate(title, url, snippet, date_str) ==
    [title |-> title, url |-> url, snippet |-> snippet, date_str |-> date_str]

\* s.strip()
Strip(s) == SubSeq(s, FirstWordStart(s, 1), LastWordEnd(s, Len(s)))

\* self._extract_date_from_text(elem.get_text()) if elem else None
DateOf(text) == IF text = NoneV THEN NoneV ELSE _extract_date_from_text(text)

\* self._clean_text(elem.get_text())[:500]
Snippet(text) == Prefix(_clean_text(text), MAX_SNIPPET_LENGTH)

FcaaCandidate(item, base_url) ==
    LET title == _clean_text(item.text)
    IN  IF Len(title) < 15 \/ title \in {"News", "Updates", "Search"} THEN NoCandidate
        ELSE IF item.href = NoneV THEN NoCandidate
        ELSE Candidate(title, _fix_relative_url(item.href, base_url), "",
                       DateOf(item.date_text))

CanadaNewsCandidate(item, base_url) ==
    LET title_text == _clean_text(item.text)
    IN  IF item.href = NoneV THEN NoCandidate
        ELSE IF title_text = "" \/ Len(title_text) < 20 \/ Contains(title_text, "Showing")
             THEN NoCandidate
        ELSE Candidate(title_text, _fix_relative_url(item.href, base_url), "",
                       IF item.time_text = NoneV THEN NoneV ELSE Strip(item.time_text))

OsfiCandidate(item, base_url) ==
    LET title == _clean_text(item.text)
    IN  IF item.text = NoneV \/ item.href = NoneV THEN NoCandidate
        ELSE IF title = "News" \/ Contains(title, "Media Center") THEN NoCandidate
        ELSE Candidate(title, _fix_relative_url(item.href, base_url),
                       Snippet(item.item_text),
                       IF item.time_text = NoneV THEN NoneV ELSE Strip(item.time_text))

FsraoCandidate(item, base_url) ==
    IF item.href = NoneV THEN NoCandidate
    ELSE Candidate(_clean_text(item.link_text), _fix_relative_url(item.href, base_url),
                   Snippet(item.item_text), DateOf(item.date_text))

BcfsaCandidate(item, base_url) ==
    IF item.href = NoneV THEN NoCandidate
    ELSE Candidate(_clean_text(item.link_text), _fix_relative_url(item.href, base_url),
                   "", DateOf(item.date_text))

\* the fallback loop over all links, before the seen test
BcfsaLinkCandidate(item, base_url) ==
    LET href == Get(item.href, "")
        text == Strip(Get(item.link_text, ""))
    IN  IF Contains(href, "/news/") /\ Len(text) > 20
        THEN Candidate(text, _fix_relative_url(BeforeQuery(href), base_url), "", NoneV)
        ELSE NoCandidate

CapsaCandidate(item, base_url) ==
    LET title == _clean_text(item.link_text)
    IN  IF item.href = NoneV \/ Len(title) <= 15 THEN NoCandidate
        ELSE Candidate(title, _fix_relative_url(item.href, base_url), "",
                       _extract_date_from_text(item.item_text))

CiaCandidate(item, base_url) ==
    LET title == _clean_text(item.text)
    IN  IF item.href = NoneV \/ Len(title) <= 15 THEN NoCandidate
        ELSE Candidate(title, _fix_relative_url(item.href, base_url), "",
                       DateOf(item.item_text))

AcpmCandidate(item, base_url) ==
    LET title == _clean_text(item.text)
    IN  IF item.href = NoneV \/ Len(title) <= 15 THEN NoCandidate
        ELSE Candidate(title, _fix_relative_url(item.href, base_url), "", NoneV)

AlbertaCandidate(item, base_url) ==
    LET title == _clean_text(item.text)
    IN  IF Len(title) < 10 \/ title \in {"Search", "Breadcrumb", "Quick links"} THEN NoCandidate
        ELSE IF item.href = NoneV THEN NoCandidate
        ELSE Candidate(title, _fix_relative_url(item.href, base_url),
                       Snippet(item.item_text), _extract_date_from_text(item.item_text))

\* title_tag = item.find(['h1', 'h2', 'h3', 'h4']) or link
GenericCandidate(item, base_url) ==
    IF item.href = NoneV THEN NoCandidate
    ELSE Candidate(_clean_text(IF item.text # NoneV THEN item.text ELSE item.link_text),
                   _fix_relative_url(item.href, base_url),
                   Snippet(item.item_text), _extract_date_from_text(item.item_text))

GoogleNewsCandidate(item, base_url) ==
    IF item.href = NoneV THEN NoCandidate
    ELSE Candidate(_clean_text(IF item.text # NoneV THEN item.text ELSE item.link_text),
                   _fix_relative_url(item.href, "https://news.google.com"), "",
                   IF item.time_attr # NoneV THEN Prefix(item.time_attr, 10)
                   ELSE DateOf(item.time_text))

\* the responses the content fetch of a _create_article call can meet
Responses(url) ==
    IF RejectedUrl(url) \/ ContentRequest(url) = NoRequest THEN {NoResponse}
    ELSE HttpGet(ContentRequest(url))

\* the call of _create_article for a candidate
ArticleOf(cand, response) ==
    IF cand = NoCandidate THEN NoArticle
    ELSE _create_article(cand.title, cand.url, source.name, source.category,
                         cand.snippet, cand.date_str, response, today)

\* if article: articles.append(article)
AppendIf(article) == IF article = NoArticle THEN articles ELSE Append(articles, article)

\* the end of an iteration without the test on len(articles)
StepEnd_uncapped(cand, breaks, found) ==
    /\ articles' = found
    /\ IF ii = Len(items)
       THEN pc' = "filter" /\ ii' = ii
       ELSE pc' = pc /\ ii' = ii + 1

\* the end of an iteration, found being the articles after it
StepEnd(cand, breaks, found) ==
    /\ articles' = found
    /\ IF ii = Len(items)
          \/ (breaks /\ cand # NoCandidate /\ Len(found) >= MAX_ARTICLES_PER_SOURCE)
       THEN pc' = "filter" /\ ii' = ii
       ELSE pc' = pc /\ ii' = ii + 1

\* one iteration of a strategy's loop; breaks tells whether the loop ends
\* with "if len(articles) >= MAX_ARTICLES_PER_SOURCE: break"
StrategyStep(cand, breaks) ==
    /\ \E response \in (IF cand = NoCandidate THEN {NoResponse} ELSE Responses(cand.url)) :
         /\ StepEnd(cand, breaks, AppendIf(ArticleOf(cand, response)))
         /\ gets' = IF response = NoResponse THEN gets ELSE gets + 1
    /\ UNCHANGED <<config, src, items, fetched, all_articles, driver, launched, browsers,
                   renders, mainVars, probe>>

_scrape_fcaa ==
    /\ pc = "_scrape_fcaa"
    /\ StrategyStep(FcaaCandidate(items[ii], source.source_page), TRUE)
    /\ UNCHANGED seen

_scrape_canada_news ==
    /\ pc = "_scrape_canada_news"
    /\ StrategyStep(CanadaNewsCandidate(items[ii], source.source_page), TRUE)
    /\ UNCHANGED seen

_scrape_osfi ==
    /\ pc = "_scrape_osfi"
    /\ StrategyStep(OsfiCandidate(items[ii], source.source_page), TRUE)
    /\ UNCHANGED seen

_scrape_fsrao ==
    /\ pc = "_scrape_fsrao"
    /\ StrategyStep(FsraoCandidate(items[ii], source.source_page), FALSE)
    /\ UNCHANGED seen

_scrape_bcfsa ==
    /\ pc = "_scrape_bcfsa"
    /\ StrategyStep(BcfsaCandidate(items[ii], source.source_page), FALSE)
    /\ UNCHANGED seen

\* the fallback loop with its candidate: a link already seen is passed over
BcfsaLinkStep(cand) ==
    IF cand # NoCandidate /\ cand.url \in seen
    THEN /\ StrategyStep(NoCandidate, TRUE)
         /\ UNCHANGED seen
    ELSE /\ StrategyStep(cand, TRUE)
         /\ seen' = IF cand = NoCandidate THEN seen ELSE seen \cup {cand.url}

\* the fallback loop of _scrape_bcfsa
_scrape_bcfsa_links ==
    /\ pc = "_scrape_bcfsa_links"
    /\ BcfsaLinkStep(BcfsaLinkCandidate(items[ii], source.source_page))

_scrape_capsa ==
    /\ pc = "_scrape_capsa"
    /\ StrategyStep(CapsaCandidate(items[ii], source.source_page), TRUE)
    /\ UNCHANGED seen

_scrape_cia ==
    /\ pc = "_scrape_cia"
    /\ StrategyStep(CiaCandidate(items[ii], source.source_page), TRUE)
    /\ UNCHANGED seen

_scrape_acpm ==
    /\ pc = "_scrape_acpm"
    /\ StrategyStep(AcpmCandidate(items[ii], source.source_page), TRUE)
    /\ UNCHANGED seen

_scrape_alberta ==
    /\ pc = "_scrape_alberta"
    /\ StrategyStep(AlbertaCandidate(items[ii], source.source_page), TRUE)
    /\ UNCHANGED seen

_scrape_generic ==
    /\ pc = "_scrape_generic"
    /\ StrategyStep(GenericCandidate(items[ii], source.source_page), TRUE)
    /\ UNCHANGED seen

_scrape_google_news ==
    /\ pc = "_scrape_google_news"
    /\ StrategyStep(GoogleNewsCandidate(items[ii], source.source_page), FALSE)
    /\ UNCHANGED seen

(***************************************************************************)
(* scrape_website                                                          *)
(***************************************************************************)
\* the if / elif chain over source_name
Dispatch(source_name) ==
    IF Contains(source_name, "FCAA") THEN "_scrape_fcaa"
    ELSE IF Contains(source_name, "CRA") THEN "_scrape_canada_news"
    ELSE IF Contains(source_name, "Retraite Quebec") THEN "_scrape_retraite_quebec"
    ELSE IF Contains(source_name, "OSFI") THEN "_scrape_osfi"
    ELSE IF Contains(source_name, "FSRAO") THEN "_scrape_fsrao"
    ELSE IF Contains(source_name, "BCFSA") THEN "_scrape_bcfsa"
    ELSE IF Contains(source_name, "CAPSA") THEN "_scrape_capsa"
    ELSE IF Contains(source_name, "CIA") \/ Contains(source_name, "Actuaries") THEN "_scrape_cia"
    ELSE IF Contains(source_name, "ACPM") THEN "_scrape_acpm"
    ELSE IF Contains(source_name, "Alberta") THEN "_scrape_alberta"
    ELSE "_scrape_generic"

\* no strategy renders the page itself
RenderingStrategies_none == {}

\* the strategies that begin with self._fetch_with_selenium(base_url, ...)
RenderingStrategies == {"_scrape_bcfsa", "_scrape_capsa", "_scrape_cia", "_scrape_acpm"}

\* the loop a strategy runs over a document, and the sequence it iterates
LoopOf(strategy, doc) ==
    IF strategy = "_scrape_bcfsa" /\ doc.primary = <<>> THEN "_scrape_bcfsa_links"
    ELSE strategy

ItemsOf(strategy, doc) ==
    CASE strategy \in {"_scrape_fcaa", "_scrape_capsa", "_scrape_cia", "_scrape_acpm"} ->
            Prefix(doc.primary, MAX_ARTICLES_PER_SOURCE * 2)
      [] strategy \in {"_scrape_fsrao", "_scrape_google_news"} ->
            Prefix(doc.primary, MAX_ARTICLES_PER_SOURCE)
      [] strategy = "_scrape_bcfsa" ->
            IF doc.primary # <<>> THEN Prefix(doc.primary, MAX_ARTICLES_PER_SOURCE)
            ELSE doc.fallback
      [] strategy = "_scrape_generic" ->
            IF doc.primary # <<>> THEN Prefix(doc.primary, MAX_ARTICLES_PER_SOURCE * 2)
            ELSE Prefix(doc.fallback, MAX_ARTICLES_PER_SOURCE * 2)
      [] OTHER -> doc.primary

\* enter the loop of a strategy; a loop over nothing returns at once
StartLoop(loop, its) ==
    /\ items' = its
    /\ ii' = IF its = <<>> THEN 0 ELSE 1
    /\ pc' = IF its = <<>> THEN "filter" ELSE loop
    /\ articles' = <<>>
    /\ seen' = {}

\* scrape_website without its handler: the exception leaves
\* aggregate_all_sources with the sources after this one unprocessed
ScrapeErrorPropagates ==
    /\ pc' = "aggregated"
    /\ items' = <<>>
    /\ ii' = 0
    /\ articles' = <<>>
    /\ seen' = {}

\* except Exception in scrape_website: log, return the still empty articles
ScrapeError == StartLoop("filter", <<>>)

\* a strategy that renders the page itself: no html, no articles
RenderThenLoop(strategy) ==
    \E html \in {RenderFailed} \cup Listings :
        /\ _fetch_with_selenium(html)
        /\ IF html.ok THEN StartLoop(LoopOf(strategy, html), ItemsOf(strategy, html))
           ELSE StartLoop("filter", <<>>)

scrape_website ==
    /\ pc = "aggregate_all_sources"
    /\ src <= Len(config)
    /\ source.type # "rss"
    /\ source.source_page # NoneV
    /\ IF source.name = "Other News Sources" THEN
            /\ RenderThenLoop("_scrape_google_news")
            /\ fetched' = Append(fetched, "ok")
            /\ UNCHANGED gets
       ELSE \E response \in {TransportError} \cup Listings :
            /\ gets' = gets + 1
            /\ IF ~response.ok THEN
                    ScrapeError /\ fetched' = Append(fetched, "error") /\ NoRender
               ELSE IF Dispatch(source.name) = "_scrape_retraite_quebec" THEN
                    \* the strategy reads the unbound name detail_copy: NameError
                    ScrapeError /\ fetched' = Append(fetched, "ok") /\ NoRender
               ELSE IF Dispatch(source.name) \in RenderingStrategies THEN
                    RenderThenLoop(Dispatch(source.name)) /\ fetched' = Append(fetched, "ok")
               ELSE /\ StartLoop(Dispatch(source.name), ItemsOf(Dispatch(source.name), response))
                    /\ fetched' = Append(fetched, "ok")
                    /\ NoRender
    /\ UNCHANGED <<config, src, all_articles, mainVars, probe>>

(***************************************************************************)
(* main, save_to_json, cleanup                                             *)
(***************************************************************************)
\* if articles: save_to_json(articles).  The write can fail at open (the
\* file is left as it was) or inside json.dump (the file is left truncated)
save_to_json ==
    /\ pc = "aggregated"
    /\ all_articles # <<>>
    /\ \/ outfile' = "complete" /\ stdout' = "Complete!" /\ raised' = FALSE
       \/ outfile' = outfile /\ stdout' = stdout /\ raised' = TRUE
       \/ outfile' = "partial" /\ stdout' = stdout /\ raised' = TRUE
    /\ pc' = "cleanup"
    /\ UNCHANGED <<config, src, loopVars, fetched, all_articles, webVars, probe>>

\* else: print("No articles found")
NoArticlesFound ==
    /\ pc = "aggregated"
    /\ all_articles = <<>>
    /\ stdout' = "No articles found"
    /\ pc' = "cleanup"
    /\ UNCHANGED <<config, src, loopVars, fetched, all_articles, webVars, outfile, raised,
                   probe>>

\* finally: aggregator.cleanup()
cleanup ==
    /\ pc = "cleanup"
    /\ browsers' = IF driver # NoneV THEN browsers - 1 ELSE browsers
    /\ pc' = "done"
    /\ UNCHANGED <<config, src, loopVars, fetched, all_articles, driver, launched, renders,
                   gets, mainVars, probe>>

Next ==
    \/ LoadConfig
    \/ AggregateReturn
    \/ SourceKeyError
    \/ fetch_rss_feed
    \/ RssEntry
    \/ scrape_website
    \/ _scrape_fcaa
    \/ _scrape_canada_news
    \/ _scrape_osfi
    \/ _scrape_fsrao
    \/ _scrape_bcfsa
    \/ _scrape_bcfsa_links
    \/ _scrape_capsa
    \/ _scrape_cia
    \/ _scrape_acpm
    \/ _scrape_alberta
    \/ _scrape_generic
    \/ _scrape_google_news
    \/ FilterSource
    \/ save_to_json
    \/ NoArticlesFound
    \/ cleanup

Spec == Init /\ [][Next]_vars

(***************************************************************************)
(* The normalizers called on their own: _validate_url and                  *)
(* _fix_relative_url applied to URLs and bases drawn from bounded sets.    *)
(***************************************************************************)
ProbeUrls ==
    { "", "https://example.org/news/a", "http://example.org/b?x=1", "/news/b", "item/3",
      "//cdn.example.org/x", "ftp://files.example.org/x.pdf",
      "mailto:info@example.org", "MAILTO:info@example.org",
      "https://example.org/share?to=mailto:ed@example.org",
      "tel:+15551234", "/contact/Tel:5551234",
      "javascript:void(0)", "JavaScript:void(0)",
      "whatsapp://send?text=news", "WhatsApp://send?text=news",
      "https://wa.example.org/?u=whatsapp:share", "/share/whatsapp:send" }

ProbeBases ==
    { "https://example.org", "https://example.org/en/news/index.html",
      "https://news.google.com", RegulatorPage, "http://example.org/a/b/", "" }

ProbeValidate ==
    /\ \E url \in ProbeUrls :
         probe' = [fn |-> "_validate_url", url |-> url, base_url |-> "",
                   result |-> _validate_url(url, "Benefits Canada")]
    /\ UNCHANGED <<pc, config, src, loopVars, fetched, all_articles, webVars, mainVars>>

ProbeFixRelative ==
    /\ \E url \in ProbeUrls, base_url \in ProbeBases :
         probe' = [fn |-> "_fix_relative_url", url |-> url, base_url |-> base_url,
                   result |-> _fix_relative_url(url, base_url)]
    /\ UNCHANGED <<pc, config, src, loopVars, fetched, all_articles, webVars, mainVars>>

NormalizerNext == ProbeValidate \/ ProbeFixRelative

NormalizerSpec == Init /\ [][NormalizerNext]_vars

(***************************************************************************)
(* Properties                                                              *)
(***************************************************************************)
Emitted == {all_articles[i] : i \in 1..Len(all_articles)}

\* C1: every article of the list aggregate_all_sources builds has a
\* non-empty, whitespace-normalized title of at least 10 characters,
\* whichever path (feed or scrape) produced it.
C1_TitleAtLeastTen ==
    \A i \in 1..Len(all_articles) :
        /\ all_articles[i].title # ""
        /\ all_articles[i].title = _clean_text(all_articles[i].title)
        /\ Len(all_articles[i].title) >= 10

IsCanonicalDate(d) == Len(d) = 10 /\ IsoAt(d, 1)

\* C2: every article of the list aggregate_all_sources builds carries a date
\* of the form YYYY-MM-DD, also when the strategy passed a hint taken from
\* the listing markup.
C2_DateCanonical ==
    \A i \in 1..Len(all_articles) : IsCanonicalDate(all_articles[i].date)

\* C3: every article of the list aggregate_all_sources builds has an
\* absolute url whose scheme is http or https.
C3_UrlAbsoluteHttp ==
    \A i \in 1..Len(all_articles) :
        \/ StartsWith(all_articles[i].url, "http://")
        \/ StartsWith(all_articles[i].url, "https://")

MentionsExcludedScheme(url) ==
    \E scheme \in {"mailto:", "tel:", "javascript:", "whatsapp:"} :
        Contains(Lower(url), scheme)

\* C4: for every url that contains mailto:, tel:, javascript: or whatsapp:
\* in any letter case, and every base, _validate_url and _fix_relative_url
\* return the empty string.
C4_ExcludedSchemesRejected ==
    (probe # NoProbe /\ MentionsExcludedScheme(probe.url)) => probe.result = ""

KeywordIn(text, keywords) ==
    \E k \in 1..Len(keywords) : Contains(Lower(text), Lower(keywords[k]))

\* the articles a step appends to all_articles
Appended == SubSeq(all_articles', Len(all_articles) + 1, Len(all_articles'))

\* C5 (as stated): a source with keywords emits an article only if a keyword
\* occurs, case-insensitively, in the article's title or in its content; a
\* source without keywords passes every article.
C5_KeywordInTitleOrContent ==
    [][pc = "filter" =>
         /\ source.keywords # <<>> =>
                \A n \in 1..Len(Appended) :
                    \/ KeywordIn(Appended[n].title, source.keywords)
                    \/ KeywordIn(Appended[n].content, source.keywords)
         /\ source.keywords = <<>> => Appended = articles]_vars

\* C5 (amended): a source with keywords emits an article only if a keyword
\* occurs, case-insensitively, in the text made of the title, one space and
\* the content; a source without keywords passes every article.
C5_KeywordInTitleSpaceContent ==
    [][pc = "filter" =>
         /\ source.keywords # <<>> =>
                \A n \in 1..Len(Appended) :
                    KeywordIn(Appended[n].title \o " " \o Appended[n].content, source.keywords)
         /\ source.keywords = <<>> => Appended = articles]_vars

\* a source with keywords has been filtered: one of its articles was emitted
\* and another one dropped
C5_Witness ==
    /\ pc = "aggregate_all_sources"
    /\ src > 1
    /\ config[src - 1].keywords # <<>>
    /\ \E a \in 1..Len(articles) : articles[a] \in Emitted
    /\ \E b \in 1..Len(articles) : articles[b] \notin Emitted

\* C6: a source whose listing or feed fetch raises contributes no article,
\* the loop goes on with the next source with nothing else changed, and the
\* run leaves the loop only after the last source.
C6_FailedSourceContributesNothing ==
    /\ []((pc = "filter" /\ fetched[src] = "error") => articles = <<>>)
    /\ [][(pc = "filter" /\ fetched[src] = "error") =>
            /\ all_articles' = all_articles
            /\ src' = src + 1
            /\ pc' = "aggregate_all_sources"
            /\ UNCHANGED <<config, webVars, mainVars>>]_vars
    /\ [](pc \in {"aggregated", "cleanup", "done"} => (src = 0 \/ src = Len(config) + 1))

\* the first source failed and the second one was processed and emitted
C6_Witness ==
    /\ pc = "aggregate_all_sources"
    /\ src = 3
    /\ fetched[1] = "error"
    /\ fetched[2] = "ok"
    /\ all_articles # <<>>

\* the structured date of a feed entry: published, else updated
EntryStamp(entry) ==
    IF entry.published_parsed # NoDatetime THEN entry.published_parsed
    ELSE entry.updated_parsed

\* an entry fetch_feed has to emit: its date, if any, is well formed and
\* within the lookback window, and its link is an http(s) URL
EntryIsValid(entry) ==
    /\ EntryStamp(entry) # NoDatetime =>
          /\ ValidDatetime(EntryStamp(entry))
          /\ ~DtLess(EntryStamp(entry), cutoff_date)
    /\ _validate_url(Get(entry.link, ""), "") # ""

\* C7: a failure while processing one feed entry does not abort the feed:
\* when fetch_rss_feed returns, every valid entry among the first
\* MAX_ARTICLES_PER_SOURCE has been emitted.
C7_EntryFailureDoesNotAbortFeed ==
    (pc = "filter" /\ source.type = "rss") =>
        \A k \in 1..Len(items) :
            EntryIsValid(items[k]) =>
                \E a \in 1..Len(articles) : articles[a].url = items[k].link

\* days from 0001-01-01 to the date of dt, and the second of its day
DaysBeforeYear(y) == (y - 1) * 365 + (y - 1) \div 4 - (y - 1) \div 100 + (y - 1) \div 400

RECURSIVE DaysBeforeMonth(_, _)
DaysBeforeMonth(y, m) ==
    IF m = 1 THEN 0 ELSE DaysBeforeMonth(y, m - 1) + DaysInMonth(y, m - 1)

Ordinal(dt) == DaysBeforeYear(dt[1]) + DaysBeforeMonth(dt[1], dt[2]) + dt[3]

SecondOfDay(dt) == dt[4] * 3600 + dt[5] * 60 + dt[6]

\* seconds from dt to now
Age(dt) == (Ordinal(now) - Ordinal(dt)) * 86400 + SecondOfDay(now) - SecondOfDay(dt)

OlderThanLookback(dt) == Age(dt) > DAYS_LOOKBACK * 86400

IsHttpLink(link) ==
    /\ StartsWith(link, "http://") \/ StartsWith(link, "https://")
    /\ ~MentionsExcludedScheme(link)

\* C8: a feed entry dated more than DAYS_LOOKBACK days before now is passed
\* over without an article and without a content fetch; an entry dated
\* within the window that has a valid link is emitted.
C8_RecencyBeforeFetch ==
    [][(pc = "fetch_rss_feed" /\ EntryStamp(items[ii]) # NoDatetime
                              /\ ValidDatetime(EntryStamp(items[ii]))) =>
         /\ OlderThanLookback(EntryStamp(items[ii])) =>
                articles' = articles /\ gets' = gets
         /\ (~OlderThanLookback(EntryStamp(items[ii])) /\ IsHttpLink(items[ii].link)) =>
                /\ Len(articles') = Len(articles) + 1
                /\ articles'[Len(articles')].url = items[ii].link
                /\ SubSeq(articles', 1, Len(articles)) = articles]_vars

\* the feed loop has passed an entry older than the window and has emitted
\* one dated within it
C8_Witness ==
    /\ pc = "fetch_rss_feed"
    /\ \E k \in 1..(ii - 1) :
          /\ EntryStamp(items[k]) # NoDatetime
          /\ OlderThanLookback(EntryStamp(items[k]))
          /\ \A a \in 1..Len(articles) : articles[a].url # items[k].link
    /\ \E k \in 1..(ii - 1) :
          /\ EntryStamp(items[k]) # NoDatetime
          /\ ~OlderThanLookback(EntryStamp(items[k]))
          /\ \E a \in 1..Len(articles) : articles[a].url = items[k].link

\* C9: the content of every article of the list aggregate_all_sources
\* builds is at most 5000 characters long, whether it is the fetched body,
\* the feed summary or the listing snippet.
C9_ContentAtMost5000 ==
    \A i \in 1..Len(all_articles) : Len(all_articles[i].content) <= MAX_CONTENT_LENGTH

\* C10: no browser is started before the first render request, at most one
\* browser is ever started and alive, and once main is done the browser, if
\* any, has been quit, also when save_to_json raised.
C10_SingleSharedBrowser ==
    /\ launched <= 1
    /\ browsers <= launched
    /\ (renders = 0 => launched = 0)
    /\ (driver = NoneV <=> launched = 0)
    /\ (pc # "done" => browsers = launched)
    /\ (pc = "done" => browsers = 0)

\* two render requests shared one browser, the write failed, and the
\* browser was quit
C10_Witness ==
    /\ pc = "done"
    /\ raised
    /\ renders >= 2
    /\ launched = 1
    /\ browsers = 0

\* C11: a run of main that has ended has either written a complete output
\* file or printed "No articles found"; it has not ended with an exception
\* leaving main, nor with a partially written output file.
C11_RunEndsInOutputOrSignal ==
    pc = "done" =>
        /\ ~raised
        /\ outfile # "partial"
        /\ outfile = "complete" \/ stdout = "No articles found"

\* the control points inside the loop of fetch_rss_feed or of a strategy
LoopPoints ==
    {"fetch_rss_feed", "_scrape_fcaa", "_scrape_canada_news", "_scrape_osfi",
     "_scrape_fsrao", "_scrape_bcfsa", "_scrape_bcfsa_links", "_scrape_capsa",
     "_scrape_cia", "_scrape_acpm", "_scrape_alberta", "_scrape_generic",
     "_scrape_google_news"}

\* article a was built from the feed entry or listing element item
BuiltFrom(a, item) ==
    IF a.extraction_method = "rss" THEN a.url = item.link
    ELSE a.title \in {_clean_text(item.text), _clean_text(item.link_text),
                      Strip(Get(item.link_text, ""))}

\* an iteration moves forward in the document and leaves the list as it was
\* or appends one article built from the element it is at
InDocumentOrder ==
    pc \in LoopPoints =>
        /\ ii' >= ii
        /\ \/ articles' = articles
           \/ /\ Len(articles') = Len(articles) + 1
              /\ SubSeq(articles', 1, Len(articles)) = articles
              /\ BuiltFrom(articles'[Len(articles')], items[ii])

\* C12: the list a feed or a strategy builds never holds more than
\* MAX_ARTICLES_PER_SOURCE articles, and it is built in document order.
C12_PerSourceCap ==
    /\ [](Len(articles) <= MAX_ARTICLES_PER_SOURCE)
    /\ [][InDocumentOrder]_vars

\* a strategy has left its loop with MAX_ARTICLES_PER_SOURCE articles while
\* elements of the document were still ahead
C12_Witness ==
    /\ pc = "filter"
    /\ Len(articles) = MAX_ARTICLES_PER_SOURCE
    /\ articles[1].extraction_method = "scrape"
    /\ ii < Len(items)

\* the candidate the strategy at pc builds from the element it is at
CandidateAt ==
    CASE pc = "_scrape_fcaa"        -> FcaaCandidate(items[ii], source.source_page)
      [] pc = "_scrape_canada_news" -> CanadaNewsCandidate(items[ii], source.source_page)
      [] pc = "_scrape_osfi"        -> OsfiCandidate(items[ii], source.source_page)
      [] pc = "_scrape_fsrao"       -> FsraoCandidate(items[ii], source.source_page)
      [] pc = "_scrape_bcfsa"       -> BcfsaCandidate(items[ii], source.source_page)
      [] pc = "_scrape_bcfsa_links" -> BcfsaLinkCandidate(items[ii], source.source_page)
      [] pc = "_scrape_capsa"       -> CapsaCandidate(items[ii], source.source_page)
      [] pc = "_scrape_cia"         -> CiaCandidate(items[ii], source.source_page)
      [] pc = "_scrape_acpm"        -> AcpmCandidate(items[ii], source.source_page)
      [] pc = "_scrape_alberta"     -> AlbertaCandidate(items[ii], source.source_page)
      [] pc = "_scrape_generic"     -> GenericCandidate(items[ii], source.source_page)
      [] pc = "_scrape_google_news" -> GoogleNewsCandidate(items[ii], source.source_page)

\* the date the stated order gives; content is the article's content, which
\* is the full content when the fetch returned one and the snippet otherwise
DateInOrder(hint, content, snippet) ==
    IF hint # NoneV /\ hint # "" THEN hint
    ELSE IF _extract_date_from_text(content) # NoneV THEN _extract_date_from_text(content)
    ELSE IF _extract_date_from_text(snippet) # NoneV THEN _extract_date_from_text(snippet)
    ELSE today

DateResolved ==
    (pc \in LoopPoints \ {"fetch_rss_feed"} /\ Len(articles') = Len(articles) + 1) =>
        articles'[Len(articles')].date =
            DateInOrder(CandidateAt.date_str, articles'[Len(articles')].content,
                        CandidateAt.snippet)

ScrapeCall ==
    /\ pc = "aggregate_all_sources"
    /\ src <= Len(config)
    /\ source.type # "rss"
    /\ source.source_page # NoneV

RenderOnlyForNewsSearch ==
    renders' # renders => (ScrapeCall /\ source.name = "Other News Sources")

\* C14 as stated: a headless render is requested only for the one source type
\* whose strategy is _scrape_google_news; no other scrape source requests one.
C14_RenderForOneSourceType == [][RenderOnlyForNewsSearch]_vars

\* the source at src is dispatched to a strategy that renders the listing
\* page after the direct fetch of it
RendersAfterFetch ==
    /\ source.name # "Other News Sources"
    /\ Dispatch(source.name) \in {"_scrape_bcfsa", "_scrape_capsa", "_scrape_cia",
                                  "_scrape_acpm"}

RenderRule ==
    IF ~ScrapeCall THEN renders' = renders
    ELSE IF source.name = "Other News Sources"
         THEN renders' = renders + 1 /\ gets' = gets
    ELSE IF RendersAfterFetch
         THEN /\ gets' = gets + 1
              /\ renders' = IF fetched'[src] = "ok" THEN renders + 1 ELSE renders
    ELSE /\ gets' = gets + 1
         /\ UNCHANGED <<renders, driver, launched, browsers>>

\* C14 amended: a headless render is requested for five source types: without
\* a direct fetch for the news search source, and after a successful direct
\* fetch for the sources of the BCFSA, CAPSA, CIA and ACPM strategies.  Every
\* other scrape source makes the direct fetch and requests no render, and no
\* render is requested anywhere else.
C14_RenderForFiveSourceTypes == [][RenderRule]_vars

\* a run has scraped a source through a rendering strategy and another
\* source from the directly fetched HTML alone
C14_Witness ==
    /\ pc = "done"
    /\ Len(config) = 2
    /\ config[1].name = "CAPSA"
    /\ config[2].name = "FCAA"
    /\ fetched = <<"ok", "ok">>
    /\ renders = 1
    /\ gets >= 2

=============================================================================
